---- MODULE Spec2Model ----
(***************************************************************************)
(* Model of the gemini crawler: the link-graph store GeminiWeb             *)
(* (src/src/gemini_web.rs) and the channel-driven crawl loop visit_url     *)
(* (src/src/main.rs).                                                      *)
(*                                                                         *)
(* Two specifications share the store operators:                           *)
(*   StoreSpec  - arbitrary sequences of calls of the store's methods,     *)
(*                made the way the callers in main.rs make them;           *)
(*   Spec       - one run of visit_url: the spawned querier task, the      *)
(*                consumer loop and the two bounded mpsc channels.         *)
(*   FairSpec   - Spec with the scheduling fairness of the tokio runtime.  *)
(* Two more apply the functions a fetch is made of to inputs of their own: *)
(*   FetchSpec  - gemini_get against a remote side: header parsing, the    *)
(*                classification of the status, the following of redirects;*)
(*   ParseSpec  - GeminiText::new on a body, Display, and GeminiText::new  *)
(*                on the rendering.                                        *)
(***************************************************************************)
EXTENDS Integers, Sequences, FiniteSets, TLC

VARIABLES
    server,     \* the remote side: Url -> ordered gemini links of its document
    web,        \* the GeminiWeb value owned by the caller / by visit_url
    url_q,      \* messages buffered in the (url_tx, url_rx) channel
    resp_q,     \* messages buffered in the (response_tx, response_rx) channel
    q_pc,       \* position of the spawned querier task
    inflight,   \* urls the querier has received and is fetching
    q_resp,     \* the response the querier is sending to response_tx, if any
    c_pc,       \* position of the consumer loop of visit_url
    c_pending,  \* (url, node_id) pairs the consumer still has to send
    c_panic,    \* payload of the consumer's unwrap() panic, if any
    failed,     \* urls for which "Error gemini_get for .." was logged
    cancel,     \* an external cancellation signal has fired
    given,      \* StoreSpec: the urls ever passed to add_node / add_urls
    passed,     \* StoreSpec: how often target t was passed to add_urls from s
    last,       \* StoreSpec: the last store call, its argument and return value
    ncalls,     \* StoreSpec: number of store calls made
    fetch,      \* FetchSpec: a remote side, and what gemini_get returned for it
    parse       \* ParseSpec: a body, and what parsing and rendering it gave

vars == <<server, web, url_q, resp_q, q_pc, inflight, q_resp, c_pc, c_pending,
          c_panic, failed, cancel, given, passed, last, ncalls, fetch, parse>>

crawlVars == <<server, url_q, resp_q, q_pc, inflight, q_resp, c_pc, c_pending,
               c_panic, failed, cancel>>

storeGhost == <<given, passed, last, ncalls>>

pureVars == <<fetch, parse>>

(***************************************************************************)
(* Resources.  A Url is compared by its full serialisation; "Bq" is "B"    *)
(* with a query string, "IP" is a gemini url whose host is an IP address   *)
(* (Url::domain() is None for it), "R" is a resource that is served as a   *)
(* redirect.                                                               *)
(***************************************************************************)
Urls == {"A", "B", "C", "Bq", "IP", "R"}

\* domain + path of a url, the label to_dot gives a node.
HostPath(url) == IF url = "Bq" THEN "B" ELSE url

\* Url::domain() is Some(..)
HasDomain(url) == url # "IP"

None == 0 - 1

\* FetchSpec and ParseSpec are idle in the other specifications
NoFetch == [pc |-> "idle"]

NoParse == [pc |-> "idle"]

(***************************************************************************)
(* Bounds of the model.                                                    *)
(***************************************************************************)
\* number of store calls explored by StoreSpec
MaxStoreCalls == 4
\* number of links of the widest document served
WideLinks == 12

\* capacity of both mpsc channels
CHANNEL_LEN == 10

(***************************************************************************)
(* The store: GeminiWeb.  graph is petgraph's Graph<Url, usize>: a vector  *)
(* of node weights (NodeIndex i is nodes[i + 1]) and a vector of edges.    *)
(***************************************************************************)
GeminiWeb_new ==
    [nodes |-> <<>>, edges |-> <<>>, visited |-> {}, url_node_ids |-> <<>>]

\* HashMap::get on url_node_ids keyed by the host and path only.
NodeIdOf_HostPath(w, url) ==
    LET same == {x \in DOMAIN w.url_node_ids : HostPath(x) = HostPath(url)}
    IN  IF same = {} THEN None ELSE w.url_node_ids[CHOOSE x \in same : TRUE]

\* HashMap::get on url_node_ids: the key is the whole Url.
NodeIdOf(w, url) ==
    IF url \in DOMAIN w.url_node_ids THEN w.url_node_ids[url] ELSE None

\* add_node without the lookup: always allocates.
add_node_NoLookup(w, url) ==
    LET index == Len(w.nodes)
    IN  [web |-> [w EXCEPT !.nodes = Append(@, url),
                           !.url_node_ids =
                               [x \in DOMAIN @ \cup {url} |->
                                   IF x = url THEN index ELSE @[x]]],
         index |-> index]

add_node(w, url) ==
    IF NodeIdOf(w, url) # None
    THEN [web |-> w, index |-> NodeIdOf(w, url)]
    ELSE LET index == Len(w.nodes)
         IN  [web |-> [w EXCEPT !.nodes = Append(@, url),
                                !.url_node_ids =
                                    [x \in DOMAIN @ \cup {url} |->
                                        IF x = url THEN index ELSE @[x]]],
              index |-> index]

\* Graph::find_edge: the position of the first edge a -> b, or None.
find_edge(edges, a, b) ==
    LET hits == {i \in 1..Len(edges) :
                    edges[i].source = a /\ edges[i].target = b}
    IN  IF hits = {} THEN None
        ELSE CHOOSE i \in hits : \A j \in hits : i <= j

\* Graph::add_edge used where update_edge is: always pushes a new edge.
update_edge_AlwaysAdd(edges, a, b, weight) ==
    Append(edges, [source |-> a, target |-> b, weight |-> weight])

\* Graph::update_edge: overwrite the weight of edge a -> b, or add the edge.
update_edge(edges, a, b, weight) ==
    LET e == find_edge(edges, a, b)
    IN  IF e # None
        THEN [edges EXCEPT ![e].weight = weight]
        ELSE Append(edges, [source |-> a, target |-> b, weight |-> weight])

\* the weight add_urls writes for an edge that find_edge found or not
new_edge_weight(edges, e) ==
    IF e # None THEN edges[e].weight + 1 ELSE 1

RECURSIVE add_urls(_, _, _)
add_urls(w, base_node_id, urls) ==
    IF urls = <<>>
    THEN [web |-> w, node_ids |-> <<>>]
    ELSE LET n == add_node(w, Head(urls))
             e == find_edge(n.web.edges, base_node_id, n.index)
             edge_weight == new_edge_weight(n.web.edges, e)
             w2 == [n.web EXCEPT !.edges =
                       update_edge(@, base_node_id, n.index, edge_weight)]
             rest == add_urls(w2, base_node_id, Tail(urls))
         IN  [web |-> rest.web, node_ids |-> <<n.index>> \o rest.node_ids]

\* try_visit that reports whether the insert happened (the negation lost).
try_visit_NotNegated(w, url) ==
    [web |-> [w EXCEPT !.visited = @ \cup {url}], ret |-> url \notin w.visited]

\* HashSet::insert returns true iff the value was not present.
try_visit(w, url) ==
    [web |-> [w EXCEPT !.visited = @ \cup {url}], ret |-> ~(url \notin w.visited)]

\* unvisited() that returns every registered url.
unvisited_NoDifference(w) == DOMAIN w.url_node_ids

\* the Vec is in the HashSet's order: only its elements are determined
unvisited(w) == (DOMAIN w.url_node_ids) \ w.visited

(***************************************************************************)
(* Helpers over a store value.                                             *)
(***************************************************************************)
\* sum of the weights of all edges a -> b (0 if there is none)
RECURSIVE WeightSum(_, _, _)
WeightSum(edges, a, b) ==
    IF edges = <<>> THEN 0
    ELSE (IF Head(edges).source = a /\ Head(edges).target = b
          THEN Head(edges).weight ELSE 0) + WeightSum(Tail(edges), a, b)

EdgeCount(edges, a, b) ==
    Cardinality({i \in 1..Len(edges) : edges[i].source = a /\ edges[i].target = b})

RECURSIVE Count(_, _)
Count(x, seq) ==
    IF seq = <<>> THEN 0
    ELSE (IF Head(seq) = x THEN 1 ELSE 0) + Count(x, Tail(seq))

RECURSIVE SelectNotIn(_, _)
SelectNotIn(seq, set) ==
    IF seq = <<>> THEN <<>>
    ELSE (IF Head(seq) \notin set THEN <<Head(seq)>> ELSE <<>>)
         \o SelectNotIn(Tail(seq), set)

NodeIds(w) == 0..(Len(w.nodes) - 1)

(***************************************************************************)
(* StoreSpec: calls of the store's methods in any order.  As in main.rs,   *)
(* add_urls gets the index of an existing node (main.rs:90, 141) and       *)
(* try_visit gets a url that has a node (main.rs:82, 138).                 *)
(***************************************************************************)
StoreUrls == {"A", "B", "Bq"}

\* the url lists StoreSpec passes to add_urls: empty, single, a repeated
\* target, distinct targets, urls differing by the query only
UrlLists ==
    {<<>>, <<"A">>, <<"B">>, <<"B", "B">>, <<"A", "B">>, <<"B", "Bq">>,
     <<"Bq", "B", "Bq">>}

IdleServer == [u \in Urls |-> <<>>]

StoreInit ==
    /\ web = GeminiWeb_new
    /\ server = IdleServer
    /\ url_q = <<>>
    /\ resp_q = <<>>
    /\ q_pc = "recv"
    /\ inflight = <<>>
    /\ q_resp = <<>>
    /\ c_pc = "recv"
    /\ c_pending = <<>>
    /\ c_panic = "none"
    /\ failed = {}
    /\ cancel = FALSE
    /\ given = {}
    /\ passed = [p \in {} |-> 0]
    /\ last = [op |-> "new"]
    /\ ncalls = 0
    /\ fetch = NoFetch
    /\ parse = NoParse

StoreAddNode(url) ==
    /\ ncalls < MaxStoreCalls
    /\ LET r == add_node(web, url)
       IN  /\ web' = r.web
           /\ last' = [op |-> "add_node", url |-> url, ret |-> r.index,
                       known |-> url \in given]
    /\ given' = given \cup {url}
    /\ ncalls' = ncalls + 1
    /\ UNCHANGED <<passed, crawlVars, pureVars>>

StoreAddUrls(base_node_id, urls) ==
    /\ ncalls < MaxStoreCalls
    /\ LET r == add_urls(web, base_node_id, urls)
       IN  /\ web' = r.web
           /\ last' = [op |-> "add_urls", base |-> base_node_id, urls |-> urls,
                       ret |-> r.node_ids]
    /\ given' = given \cup {urls[i] : i \in 1..Len(urls)}
    /\ passed' = [p \in DOMAIN passed \cup
                        {<<base_node_id, urls[i]>> : i \in 1..Len(urls)} |->
                    (IF p \in DOMAIN passed THEN passed[p] ELSE 0)
                    + (IF p[1] = base_node_id THEN Count(p[2], urls) ELSE 0)]
    /\ ncalls' = ncalls + 1
    /\ UNCHANGED <<crawlVars, pureVars>>

StoreTryVisit(url) ==
    /\ ncalls < MaxStoreCalls
    /\ LET r == try_visit(web, url)
       IN  /\ web' = r.web
           /\ last' = [op |-> "try_visit", url |-> url, ret |-> r.ret]
    /\ ncalls' = ncalls + 1
    /\ UNCHANGED <<given, passed, crawlVars, pureVars>>

StoreNext ==
    \/ \E url \in StoreUrls : StoreAddNode(url)
    \/ \E base_node_id \in NodeIds(web), urls \in UrlLists :
           StoreAddUrls(base_node_id, urls)
    \/ \E url \in DOMAIN web.url_node_ids : StoreTryVisit(url)

StoreSpec == StoreInit /\ [][StoreNext]_vars

(***************************************************************************)
(* gemini_get: one fetch, its redirects followed (src/src/main.rs:26-71),  *)
(* and the parsing of the response header (src/src/gemini_web.rs:152-170). *)
(* A header is the string the server sent, parsed character by character;  *)
(* the meta of a redirect names a Url of Urls.                             *)
(***************************************************************************)
\* limit of the redirects one fetch follows
MAX_REDIRECT == 256
\* largest status code a served header carries
MaxCode == 100

\* the i-th character of s, as a string of length one
Char(s, i) == SubSeq(s, i, i)

\* s from its i-th character on
From(s, i) == SubSeq(s, i, Len(s))

\* index of the first c in s at or after i, 0 when there is none
RECURSIVE Find(_, _, _)
Find(s, c, i) ==
    IF i > Len(s) THEN 0
    ELSE IF Char(s, i) = c THEN i
    ELSE Find(s, c, i + 1)

\* str::split_once(c): <<before, after>> of the first c, <<>> when none
split_once(s, c) ==
    LET i == Find(s, c, 1)
    IN  IF i = 0 THEN <<>>
        ELSE <<SubSeq(s, 1, i - 1), From(s, i + 1)>>

DigitChars == <<"0", "1", "2", "3", "4", "5", "6", "7", "8", "9">>

IsDigit(c) == \E d \in 1..10 : DigitChars[d] = c

DigitVal(c) == (CHOOSE d \in 1..10 : DigitChars[d] = c) - 1

RECURSIVE DigitsVal(_, _)
DigitsVal(s, acc) ==
    IF s = "" THEN acc
    ELSE DigitsVal(From(s, 2), 10 * acc + DigitVal(Char(s, 1)))

\* str::parse::<u64>(): an optional '+', then one or more decimal digits;
\* None otherwise (no served code is near 2^64)
parse_u64(s) ==
    LET digits == IF s # "" /\ Char(s, 1) = "+" THEN From(s, 2) ELSE s
    IN  IF digits = "" \/ \E i \in 1..Len(digits) : ~IsDigit(Char(digits, i))
        THEN None
        ELSE DigitsVal(digits, 0)

\* str::parse::<Mime>() followed by essence_str(): "type/subtype" without
\* the parameters; "" when the text is no media type
mime_essence(s) ==
    LET semi == Find(s, ";", 1)
        ess == IF semi = 0 THEN s ELSE SubSeq(s, 1, semi - 1)
        slash == Find(ess, "/", 1)
    IN  IF slash <= 1 \/ slash = Len(ess) \/ Find(ess, " ", 1) # 0
        THEN ""
        ELSE ess

HeaderErr(e) == [type |-> "Err", meta |-> e]

\* the first status code of a class and the bucket of the class
StatusClasses ==
    <<[lo |-> 10, type |-> "Input"],
      [lo |-> 20, type |-> "Success"],
      [lo |-> 30, type |-> "Redirect"],
      [lo |-> 40, type |-> "TempFail"],
      [lo |-> 50, type |-> "PermFail"],
      [lo |-> 60, type |-> "Auth"]>>

\* classes that miss their last code: lo..lo+9 without lo+9
InClass_Short(status_code, k) ==
    status_code >= StatusClasses[k].lo /\ status_code < StatusClasses[k].lo + 9

\* lo..=lo+9
InClass(status_code, k) ==
    status_code >= StatusClasses[k].lo /\ status_code <= StatusClasses[k].lo + 9

\* <GeminiHeader as FromStr>::from_str
GeminiHeader_from_str(s) ==
    LET parts == split_once(s, " ")
    IN  IF parts = <<>> THEN HeaderErr("no status code")
        ELSE
        LET status_code == parse_u64(parts[1])
            rest == parts[2]
        IN  IF status_code = None THEN HeaderErr("ParseIntError")
            ELSE IF \A k \in 1..Len(StatusClasses) : ~InClass(status_code, k)
            THEN HeaderErr("invalid status code")
            ELSE
            LET type == StatusClasses[
                            CHOOSE k \in 1..Len(StatusClasses) :
                                InClass(status_code, k)].type
            IN  CASE type = "Success" ->
                       IF mime_essence(rest) = ""
                       THEN HeaderErr("FromStrError")
                       ELSE [type |-> type, meta |-> mime_essence(rest)]
                  [] type = "Redirect" ->
                       IF rest \in Urls
                       THEN [type |-> type, meta |-> rest]
                       ELSE HeaderErr("url::ParseError")
                  [] OTHER -> [type |-> type, meta |-> rest]

\* the header line "<code> <meta>" a chain sends after its redirects
ServedHeader(remote) == ToString(remote.code) \o " " \o remote.meta

\* the resources every server of a crawl serves as a redirect, and the
\* target of the redirect
RedirectTo == [u \in {"R"} |-> "C"]

\* what the remote side answers to the request for url that follows
\* redirect_count redirects: its header line and the links of its body
Respond(remote, url, redirect_count) ==
    CASE remote.kind = "docs" ->
           IF url \in DOMAIN RedirectTo
           THEN [header |-> "30 " \o RedirectTo[url], links |-> <<>>]
           ELSE [header |-> "20 text/gemini", links |-> remote.server[url]]
      [] remote.kind = "chain" ->
           IF redirect_count < remote.redirects
           THEN [header |-> "31 " \o url, links |-> <<>>]
           ELSE [header |-> ServedHeader(remote), links |-> <<>>]
      [] remote.kind = "loop" ->
           [header |-> "30 " \o url, links |-> <<>>]
      [] remote.kind = "raw" ->
           [header |-> remote.header, links |-> <<>>]

GetErr(e, header, cycles) ==
    [kind |-> "Err", err |-> e, header |-> header, target |-> "",
     links |-> <<>>, cycles |-> cycles]

\* a limit check that is off by one
LimitReached_Early(redirect_count) == redirect_count >= MAX_REDIRECT

\* redirect_count > MAX_REDIRECT
LimitReached(redirect_count) == redirect_count > MAX_REDIRECT

\* one invocation of gemini_get_recursion: its return value, or kind
\* "Redirect" when it returns what the invocation for the redirect target
\* with redirect_count + 1 returns; cycles is 1 when a request was made;
\* target is the url of an Ok response, the one that was requested last
gemini_get_recursion(remote, url, redirect_count) ==
    IF LimitReached(redirect_count)
    THEN GetErr("Max redirect reached", "none", 0)
    ELSE IF ~HasDomain(url)
    THEN [kind |-> "Panic", err |-> "unwrap on None", header |-> "none",
          target |-> "", links |-> <<>>, cycles |-> 0]
    ELSE
    LET response == Respond(remote, url, redirect_count)
        header == GeminiHeader_from_str(response.header)
    IN  CASE header.type = "Err" -> GetErr(header.meta, "none", 1)
          [] header.type = "Success" /\ header.meta = "text/gemini" ->
               [kind |-> "Ok", err |-> "", header |-> header.type,
                target |-> url, links |-> response.links, cycles |-> 1]
          [] header.type = "Success" /\ header.meta # "text/gemini" ->
               GetErr("invalid MIME", header.type, 1)
          [] header.type = "Redirect" ->
               [kind |-> "Redirect", err |-> "", header |-> header.type,
                target |-> header.meta, links |-> <<>>, cycles |-> 1]
          [] OTHER -> GetErr("invalid header type", header.type, 1)

\* gemini_get_recursion with the invocations it makes for redirects
RECURSIVE gemini_get(_, _, _)
gemini_get(remote, url, redirect_count) ==
    LET r == gemini_get_recursion(remote, url, redirect_count)
    IN  IF r.kind = "Redirect"
        THEN gemini_get(remote, r.target, redirect_count + 1)
        ELSE r

(***************************************************************************)
(* The remote side.  server[u] is the ordered list of gemini links of the  *)
(* document at u (GeminiResponse::gemini_urls of a fetched response).      *)
(***************************************************************************)
\* A links to B and C, B links to C, C links to nothing
Fixture ==
    [u \in Urls |-> CASE u = "A" -> <<"B", "C">>
                      [] u = "B" -> <<"C">>
                      [] OTHER   -> <<>>]

\* links back to documents already fetched, a self link, a repeated link
Cyclic ==
    [u \in Urls |-> CASE u = "A" -> <<"B", "A">>
                      [] u = "B" -> <<"A", "C", "C">>
                      [] u = "C" -> <<"B">>
                      [] OTHER   -> <<>>]

\* one document with more links than a channel can buffer
Wide ==
    [u \in Urls |-> CASE u = "A" -> [i \in 1..WideLinks |-> "B"]
                      [] OTHER   -> <<>>]

\* a link to a gemini url whose host is not a domain name
NoDomain ==
    [u \in Urls |-> CASE u = "A" -> <<"B", "IP">>
                      [] u = "B" -> <<"Bq">>
                      [] OTHER   -> <<>>]

\* two documents link to C before C is fetched, and C has a link itself
Diamond ==
    [u \in Urls |-> CASE u = "A" -> <<"B", "C">>
                      [] u = "B" -> <<"C">>
                      [] u = "C" -> <<"Bq">>
                      [] OTHER   -> <<>>]

\* the seed links to R, which is served as a redirect to C; C is linked
\* from B only
Redirecting ==
    [u \in Urls |-> CASE u = "A" -> <<"R">>
                      [] u = "B" -> <<"C">>
                      [] u = "C" -> <<"B">>
                      [] OTHER   -> <<>>]

Servers == {Fixture, Cyclic, Wide, NoDomain, Diamond, Redirecting}

\* the remote side of a crawl as gemini_get sees it
DocsRemote(srv) == [kind |-> "docs", server |-> srv]

\* the seed main passes to visit_url
base_url == "A"

(***************************************************************************)
(* visit_url.  Init is the state after lines 114-122: the seed has a node, *)
(* it is buffered in the url channel, the querier is spawned.              *)
(***************************************************************************)
Init ==
    /\ server \in Servers
    /\ LET r == add_node(GeminiWeb_new, base_url)
       IN  /\ web = r.web
           /\ url_q = <<[url |-> base_url, node_id |-> r.index]>>
    /\ resp_q = <<>>
    /\ q_pc = "recv"
    /\ inflight = <<>>
    /\ q_resp = <<>>
    /\ c_pc = "recv"
    /\ c_pending = <<>>
    /\ c_panic = "none"
    /\ failed = {}
    /\ cancel = FALSE
    /\ given = {}
    /\ passed = [p \in {} |-> 0]
    /\ last = [op |-> "new"]
    /\ ncalls = 0
    /\ fetch = NoFetch
    /\ parse = NoParse

\* the main task has not panicked (a panic of main ends the process) nor returned
Running == c_pc \in {"recv", "send"}

\* url_rx and response_tx are alive: the querier task has not been dropped
QuerierAlive == q_pc # "panicked"

\* a querier that takes the next url while a fetch is still outstanding
QuerierCanRecv_Concurrent == q_pc \in {"recv", "fetch"}

\* the querier awaits url_rx.recv() only between two fetches
QuerierCanRecv == q_pc = "recv"

\* a querier that marks the url visited when it takes it from the channel
QuerierRecv_MarksVisited ==
    /\ Running
    /\ QuerierCanRecv
    /\ url_q # <<>>
    /\ inflight' = Append(inflight, Head(url_q))
    /\ url_q' = Tail(url_q)
    /\ q_pc' = "fetch"
    /\ web' = [web EXCEPT !.visited = @ \cup {Head(url_q).url}]
    /\ UNCHANGED <<server, resp_q, q_resp, c_pc, c_pending, c_panic,
                   failed, cancel, storeGhost, pureVars>>

\* url_rx.recv() yields Some((url, node_id))
QuerierRecv ==
    /\ Running
    /\ QuerierCanRecv
    /\ url_q # <<>>
    /\ inflight' = Append(inflight, Head(url_q))
    /\ url_q' = Tail(url_q)
    /\ q_pc' = "fetch"
    /\ UNCHANGED <<server, web, resp_q, q_resp, c_pc, c_pending, c_panic,
                   failed, cancel, storeGhost, pureVars>>

\* a querier that sends the url of the response, the redirect target,
\* instead of the url it received
QuerierFetchOk_TargetUrl ==
    /\ Running
    /\ q_pc = "fetch"
    /\ HasDomain(Head(inflight).url)
    /\ LET r == gemini_get(DocsRemote(server), Head(inflight).url, 0)
       IN  /\ r.kind = "Ok"
           /\ q_resp' = <<[url |-> r.target,
                           node_id |-> Head(inflight).node_id,
                           links |-> r.links]>>
    /\ inflight' = Tail(inflight)
    /\ q_pc' = "send"
    /\ UNCHANGED <<server, web, url_q, resp_q, c_pc, c_pending, c_panic,
                   failed, cancel, storeGhost, pureVars>>

\* gemini_get returned Ok(response): the response is sent with the url and
\* the node id that were received
QuerierFetchOk ==
    /\ Running
    /\ q_pc = "fetch"
    /\ HasDomain(Head(inflight).url)
    /\ LET r == gemini_get(DocsRemote(server), Head(inflight).url, 0)
       IN  /\ r.kind = "Ok"
           /\ q_resp' = <<[url |-> Head(inflight).url,
                           node_id |-> Head(inflight).node_id,
                           links |-> r.links]>>
    /\ inflight' = Tail(inflight)
    /\ q_pc' = "send"
    /\ UNCHANGED <<server, web, url_q, resp_q, c_pc, c_pending, c_panic,
                   failed, cancel, storeGhost, pureVars>>

\* a failed fetch that ends the querier task (the error propagated)
QuerierFetchErr_Fatal ==
    /\ Running
    /\ q_pc = "fetch"
    /\ HasDomain(Head(inflight).url)
    /\ failed' = failed \cup {Head(inflight).url}
    /\ inflight' = Tail(inflight)
    /\ url_q' = <<>>
    /\ q_pc' = "panicked"
    /\ UNCHANGED <<server, web, resp_q, q_resp, c_pc, c_pending, c_panic,
                   cancel, storeGhost, pureVars>>

\* gemini_get returned Err(e): logged, continue
QuerierFetchErr ==
    /\ Running
    /\ q_pc = "fetch"
    /\ HasDomain(Head(inflight).url)
    /\ failed' = failed \cup {Head(inflight).url}
    /\ inflight' = Tail(inflight)
    /\ q_pc' = "recv"
    /\ UNCHANGED <<server, web, url_q, resp_q, q_resp, c_pc, c_pending, c_panic,
                   cancel, storeGhost, pureVars>>

\* url.domain().unwrap() panics in gemini_get_recursion: the task's future is
\* dropped, and url_rx (with what it buffers) and response_tx with it
QuerierPanic ==
    /\ Running
    /\ q_pc = "fetch"
    /\ ~HasDomain(Head(inflight).url)
    /\ inflight' = <<>>
    /\ url_q' = <<>>
    /\ q_pc' = "panicked"
    /\ UNCHANGED <<server, web, resp_q, q_resp, c_pc, c_pending, c_panic,
                   failed, cancel, storeGhost, pureVars>>

\* a results channel that hands over the newest response first
QuerierSendResponse_Front ==
    /\ Running
    /\ q_pc = "send"
    /\ Len(resp_q) < CHANNEL_LEN
    /\ resp_q' = q_resp \o resp_q
    /\ q_resp' = <<>>
    /\ q_pc' = "recv"
    /\ UNCHANGED <<server, web, url_q, inflight, c_pc, c_pending, c_panic,
                   failed, cancel, storeGhost, pureVars>>

\* response_tx.send(..).await completes once the channel has room
QuerierSendResponse ==
    /\ Running
    /\ q_pc = "send"
    /\ Len(resp_q) < CHANNEL_LEN
    /\ resp_q' = Append(resp_q, Head(q_resp))
    /\ q_resp' = <<>>
    /\ q_pc' = "recv"
    /\ UNCHANGED <<server, web, url_q, inflight, c_pc, c_pending, c_panic,
                   failed, cancel, storeGhost, pureVars>>

\* the links the consumer keeps: those not in visited
LinksToMerge(links, visited) == SelectNotIn(links, visited)

Zip(urls, node_ids) ==
    [i \in 1..Len(urls) |-> [url |-> urls[i], node_id |-> node_ids[i]]]

\* response_rx.recv() yields Some(..): lines 138-141, up to the first send
ConsumerRecv ==
    /\ c_pc = "recv"
    /\ resp_q # <<>>
    /\ LET r == Head(resp_q)
           w1 == [web EXCEPT !.visited = @ \cup {r.url}]
           urls == LinksToMerge(r.links, w1.visited)
           a == add_urls(w1, r.node_id, urls)
       IN  /\ web' = a.web
           /\ c_pending' = Zip(urls, a.node_ids)
           /\ c_pc' = IF urls = <<>> THEN "recv" ELSE "send"
    /\ resp_q' = Tail(resp_q)
    /\ UNCHANGED <<server, url_q, q_pc, inflight, q_resp, c_panic, failed,
                   cancel, storeGhost, pureVars>>

\* url_tx.send_timeout(..) returns Ok(())
ConsumerSend ==
    /\ c_pc = "send"
    /\ QuerierAlive
    /\ Len(url_q) < CHANNEL_LEN
    /\ url_q' = Append(url_q, Head(c_pending))
    /\ c_pending' = Tail(c_pending)
    /\ c_pc' = IF Tail(c_pending) = <<>> THEN "recv" ELSE "send"
    /\ UNCHANGED <<server, web, resp_q, q_pc, inflight, q_resp, c_panic, failed,
                   cancel, storeGhost, pureVars>>

\* url_tx.send_timeout(..) returns Err(Timeout(..)) after one second with the
\* channel full: unwrap() panics in the main task
ConsumerSendTimeout ==
    /\ c_pc = "send"
    /\ QuerierAlive
    /\ Len(url_q) = CHANNEL_LEN
    /\ c_panic' = "Timeout"
    /\ c_pc' = "panicked"
    /\ UNCHANGED <<server, web, url_q, resp_q, q_pc, inflight, q_resp, c_pending,
                   failed, cancel, storeGhost, pureVars>>

\* url_tx.send_timeout(..) returns Err(Closed(..)): url_rx was dropped
ConsumerSendClosed ==
    /\ c_pc = "send"
    /\ ~QuerierAlive
    /\ c_panic' = "Closed"
    /\ c_pc' = "panicked"
    /\ UNCHANGED <<server, web, url_q, resp_q, q_pc, inflight, q_resp, c_pending,
                   failed, cancel, storeGhost, pureVars>>

\* response_rx.recv() yields None (every response_tx dropped, nothing
\* buffered): the loop ends and visit_url returns Ok(web)
ConsumerReturn ==
    /\ c_pc = "recv"
    /\ resp_q = <<>>
    /\ ~QuerierAlive
    /\ c_pc' = "returned"
    /\ UNCHANGED <<server, web, url_q, resp_q, q_pc, inflight, q_resp, c_pending,
                   c_panic, failed, cancel, storeGhost, pureVars>>

\* the external cancellation signal fires; visit_url has no parameter or
\* wait point that observes it
Cancel ==
    /\ Running
    /\ ~cancel
    /\ cancel' = TRUE
    /\ UNCHANGED <<server, web, url_q, resp_q, q_pc, inflight, q_resp, c_pc,
                   c_pending, c_panic, failed, storeGhost, pureVars>>

QuerierStep ==
    \/ QuerierRecv
    \/ QuerierFetchOk
    \/ QuerierFetchErr
    \/ QuerierPanic
    \/ QuerierSendResponse

ConsumerStep ==
    \/ ConsumerRecv
    \/ ConsumerSend
    \/ ConsumerSendTimeout
    \/ ConsumerSendClosed
    \/ ConsumerReturn

Next == QuerierStep \/ ConsumerStep \/ Cancel

Spec == Init /\ [][Next]_vars

\* ENABLED <<ConsumerRecv>>_vars, written out (the step always shortens resp_q)
ConsumerRecvEnabled == c_pc = "recv" /\ resp_q # <<>>

\* ENABLED <<QuerierStep>>_vars, written out: a url to receive, a fetch to
\* end (it returns or panics), or a response to send into a channel with room
QuerierStepEnabled ==
    /\ Running
    /\ \/ QuerierCanRecv /\ url_q # <<>>
       \/ q_pc = "fetch"
       \/ q_pc = "send" /\ Len(resp_q) < CHANNEL_LEN

\* The runtime polls every task that is ready: a channel operation that can
\* complete does.  The last two conjuncts are WF_vars(ConsumerRecv) and
\* WF_vars(QuerierStep) with their ENABLED written as the state predicates
\* above.  The one-second timer of send_timeout and the cancellation signal
\* carry no fairness.
FairSpec ==
    /\ Spec
    /\ WF_vars(ConsumerSend)
    /\ WF_vars(ConsumerSendClosed)
    /\ WF_vars(ConsumerReturn)
    /\ ([]<>(~ConsumerRecvEnabled) \/ []<><<ConsumerRecv>>_vars)
    /\ ([]<>(~QuerierStepEnabled) \/ []<><<QuerierStep>>_vars)

(***************************************************************************)
(* Properties of the store, checked under StoreSpec.                       *)
(***************************************************************************)
PassedCount(s, t) == IF <<s, t>> \in DOMAIN passed THEN passed[<<s, t>>] ELSE 0

NodeUrls(w) == {w.nodes[i] : i \in 1..Len(w.nodes)}

\* C8: add_node is idempotent: in every store state a second add_node(r)
\* returns the id of the first and changes nothing, the id a call returned
\* is the node holding that url, and the nodes are in bijection with the
\* distinct urls ever passed to add_node / add_urls.
C8_AddNodeIdempotent ==
    /\ \A url \in StoreUrls :
          LET r1 == add_node(web, url)
              r2 == add_node(r1.web, url)
          IN  r2.index = r1.index /\ r2.web = r1.web
    /\ last.op = "add_node" => web.nodes[last.ret + 1] = last.url
    /\ NodeUrls(web) = given
    /\ Len(web.nodes) = Cardinality(given)
    /\ DOMAIN web.url_node_ids = given
    /\ \A url \in given : web.nodes[web.url_node_ids[url] + 1] = url

\* add_node was called again for a url that already had a node, with a
\* url differing from it only by the query registered as well.
C8_Witness ==
    /\ last.op = "add_node"
    /\ last.known
    /\ {"B", "Bq"} \subseteq given

C9_WeightIsCount ==
    \A s \in NodeIds(web), t \in StoreUrls :
        IF PassedCount(s, t) = 0
        THEN t \in DOMAIN web.url_node_ids =>
                 EdgeCount(web.edges, s, web.url_node_ids[t]) = 0
        ELSE /\ t \in DOMAIN web.url_node_ids
             /\ EdgeCount(web.edges, s, web.url_node_ids[t]) = 1
             /\ WeightSum(web.edges, s, web.url_node_ids[t]) = PassedCount(s, t)

C9_NoDecrease ==
    \A i \in 1..Len(web.edges) :
        /\ i <= Len(web'.edges)
        /\ web'.edges[i].source = web.edges[i].source
        /\ web'.edges[i].target = web.edges[i].target
        /\ web'.edges[i].weight >= web.edges[i].weight

\* C9: the weight of edge (s, t) is the number of times t was passed to
\* add_urls from s (over all calls and over repeats within one list), there
\* is exactly one edge per pair passed and none otherwise, and no store call
\* removes an edge or lowers a weight.
C9_EdgeWeightCounting == [](C9_WeightIsCount) /\ [][C9_NoDecrease]_vars

\* a target was passed three times from one source, in more than one call
C9_Witness ==
    /\ last.op = "add_urls"
    /\ \E p \in DOMAIN passed : passed[p] >= 3 /\ passed[p] > Count(p[2], last.urls)

C10_UnvisitedIsDifference == unvisited(web) = NodeUrls(web) \ web.visited

C10_TryVisitStep ==
    (last'.op = "try_visit" /\ ncalls' = ncalls + 1) =>
        LET url == last'.url
            shrink == Cardinality(unvisited(web)) - Cardinality(unvisited(web'))
        IN  /\ last'.ret <=> (url \in web.visited)
            /\ unvisited(web') \subseteq unvisited(web)
            /\ shrink \in {0, 1}
            /\ shrink = 1 <=> (url \notin web.visited)

\* C10: unvisited() is the set of urls that have a node minus visited;
\* try_visit(r), called as main.rs calls it (r has a node), returns true iff
\* r was already visited, and shrinks unvisited() by one element iff r was
\* not visited before and by none otherwise.
C10_UnvisitedAndTryVisit ==
    [](C10_UnvisitedIsDifference) /\ [][C10_TryVisitStep]_vars

\* try_visit was called on a visited url while another is still unvisited
C10_Witness ==
    /\ last.op = "try_visit"
    /\ last.ret
    /\ unvisited(web) # {}

(***************************************************************************)
(* Properties of a crawl run, checked under Spec / FairSpec.               *)
(***************************************************************************)
\* the frontier is empty, no fetch is in flight, no result is pending and
\* the consumer waits for the next result
Quiescent ==
    /\ url_q = <<>>
    /\ q_pc = "recv"
    /\ resp_q = <<>>
    /\ c_pc = "recv"

\* C1: once the frontier is empty and nothing is in flight, the run
\* eventually leaves its wait and returns the graph.
C1_NaturalCompletion == Quiescent ~> (c_pc = "returned")

EdgeSet(w) == {w.edges[i] : i \in 1..Len(w.edges)}

\* the node holding url
Node(w, url) == w.url_node_ids[url]

\* C2: the crawl of the fixture (A -> B, C; B -> C; C -> nothing), every
\* fetch succeeding, comes to rest with exactly the nodes A, B, C, exactly
\* the edges A->B, A->C, B->C of weight 1 each, and visited = {A, B, C}.
C2_Fixture ==
    (server = Fixture /\ Quiescent /\ failed = {}) =>
        /\ Len(web.nodes) = 3
        /\ NodeUrls(web) = {"A", "B", "C"}
        /\ DOMAIN web.url_node_ids = {"A", "B", "C"}
        /\ Len(web.edges) = 3
        /\ EdgeSet(web) =
               {[source |-> Node(web, "A"), target |-> Node(web, "B"), weight |-> 1],
                [source |-> Node(web, "A"), target |-> Node(web, "C"), weight |-> 1],
                [source |-> Node(web, "B"), target |-> Node(web, "C"), weight |-> 1]}
        /\ web.visited = {"A", "B", "C"}

\* the fixture's crawl has come to rest without a failed fetch
C2_Witness == server = Fixture /\ Quiescent /\ failed = {}

\* the consumer takes a result off the results channel in this step
ConsumerMerges == c_pc = "recv" /\ resp_q # <<>> /\ resp_q' = Tail(resp_q)

LinkSet(links) == {links[i] : i \in 1..Len(links)}

\* C3: when the consumer processes the result for r, every link l of r's
\* document gets a node and the weight of edge (r, l) grows by the number of
\* times l occurs in the document, whether or not l is visited.
C3_EveryLinkCounted ==
    [][ConsumerMerges =>
          LET r == Head(resp_q)
          IN  \A l \in LinkSet(r.links) :
                  /\ l \in DOMAIN web'.url_node_ids
                  /\ WeightSum(web'.edges, r.node_id, Node(web', l))
                       = (IF l \in DOMAIN web.url_node_ids
                          THEN WeightSum(web.edges, r.node_id, Node(web, l))
                          ELSE 0) + Count(l, r.links)]_vars

\* C4: a send onto the full frontier channel that times out never aborts
\* the run: the consumer does not panic with a timeout.
C4_TimeoutNotFatal == c_panic # "Timeout"

\* the querier's fetch of Head(inflight) ends in this step without a response
FetchFails ==
    /\ q_pc = "fetch"
    /\ HasDomain(Head(inflight).url)
    /\ Len(inflight') < Len(inflight)
    /\ q_resp' = <<>>

ConcurrencyLimit == 1

\* C6: never more than ConcurrencyLimit fetches are outstanding (dequeued
\* from the frontier, result not yet produced).
C6_BoundedConcurrency == Len(inflight) <= ConcurrencyLimit

\* a fetch is outstanding while further urls wait in the frontier
C6_Witness == Len(inflight) = ConcurrencyLimit /\ Len(url_q) >= 2

\* C7: after the cancellation signal has fired, nothing more is sent onto
\* the frontier channel.
C7_NoSendAfterCancel ==
    [][cancel => ~(Len(url_q') > Len(url_q))]_vars

(***************************************************************************)
(* FetchSpec: gemini_get applied to one remote side.                       *)
(***************************************************************************)
Metas == {"text/gemini", "text/gemini; charset=utf-8", "text/plain",
          "gemini", "A", ""}

\* header lines that are no "<code> <meta>"
RawHeaders == {"", "20", "x0 text/gemini", " 20 text/gemini",
               "+20 text/gemini", "020 text/gemini", "2O text/gemini"}

\* lengths of the redirect chains served
ChainLens == {0, 1, 2, MAX_REDIRECT - 1, MAX_REDIRECT, MAX_REDIRECT + 1}

FetchRemotes ==
    {[kind |-> "chain", redirects |-> n, code |-> c, meta |-> m] :
        n \in {0, 1}, c \in 0..MaxCode, m \in Metas}
    \cup {[kind |-> "chain", redirects |-> n, code |-> c, meta |-> m] :
        n \in ChainLens, c \in {20, 51}, m \in {"text/gemini", "text/plain"}}
    \cup {[kind |-> "loop"]}
    \cup {[kind |-> "raw", header |-> h] : h \in RawHeaders}

FetchInit ==
    /\ server = IdleServer
    /\ web = GeminiWeb_new
    /\ url_q = <<>>
    /\ resp_q = <<>>
    /\ q_pc = "idle"
    /\ inflight = <<>>
    /\ q_resp = <<>>
    /\ c_pc = "idle"
    /\ c_pending = <<>>
    /\ c_panic = "none"
    /\ failed = {}
    /\ cancel = FALSE
    /\ given = {}
    /\ passed = [p \in {} |-> 0]
    /\ last = [op |-> "new"]
    /\ ncalls = 0
    /\ parse = NoParse
    /\ \E remote \in FetchRemotes, url \in {"A", "IP"} :
           fetch = [pc |-> "call", remote |-> remote, base |-> url,
                    url |-> url, redirect_count |-> 0, cycles |-> 0,
                    result |-> GetErr("", "none", 0)]

\* gemini_get(&url): the invocation for a redirect goes on to the invocation
\* for its target
FetchRedirect ==
    /\ fetch.pc = "call"
    /\ LET r == gemini_get_recursion(fetch.remote, fetch.url,
                                     fetch.redirect_count)
       IN  /\ r.kind = "Redirect"
           /\ fetch' = [fetch EXCEPT !.url = r.target,
                                     !.redirect_count = @ + 1,
                                     !.cycles = @ + r.cycles]
    /\ UNCHANGED <<web, crawlVars, storeGhost, parse>>

\* gemini_get(&url): the last invocation returns, and with it all of them
FetchReturn ==
    /\ fetch.pc = "call"
    /\ LET r == gemini_get_recursion(fetch.remote, fetch.url,
                                     fetch.redirect_count)
       IN  /\ r.kind # "Redirect"
           /\ fetch' = [fetch EXCEPT !.pc = "done",
                                     !.cycles = @ + r.cycles,
                                     !.result = r]
    /\ UNCHANGED <<web, crawlVars, storeGhost, parse>>

FetchNext == FetchRedirect \/ FetchReturn

FetchSpec == FetchInit /\ [][FetchNext]_vars

\* the fetch of a chain of n redirects that ends in a text/gemini success
ChainDone(n) ==
    /\ fetch.pc = "done"
    /\ fetch.base = "A"
    /\ fetch.remote.kind = "chain"
    /\ fetch.remote.redirects = n
    /\ fetch.remote.code = 20
    /\ fetch.remote.meta = "text/gemini"

\* C11: a chain of exactly MAX_REDIRECT redirects that ends in a success is
\* fetched; a chain of MAX_REDIRECT + 1 redirects fails with the redirect
\* limit error; no fetch makes more than MAX_REDIRECT + 1 request cycles.
C11_RedirectBound ==
    /\ ChainDone(MAX_REDIRECT) =>
           fetch.result.kind = "Ok" /\ fetch.cycles = MAX_REDIRECT + 1
    /\ ChainDone(MAX_REDIRECT + 1) =>
           /\ fetch.result.kind = "Err"
           /\ fetch.result.err = "Max redirect reached"
    /\ fetch.pc # "idle" => fetch.cycles <= MAX_REDIRECT + 1

\* the fetch of a chain of MAX_REDIRECT + 1 redirects has failed after
\* MAX_REDIRECT + 1 request cycles
C11_Witness ==
    /\ ChainDone(MAX_REDIRECT + 1)
    /\ fetch.result.kind = "Err"
    /\ fetch.cycles = MAX_REDIRECT + 1


\* the bucket of a status code by its tens digit
Bucket(code) ==
    CASE code \div 10 = 1 -> "Input"
      [] code \div 10 = 2 -> "Success"
      [] code \div 10 = 3 -> "Redirect"
      [] code \div 10 = 4 -> "TempFail"
      [] code \div 10 = 5 -> "PermFail"
      [] code \div 10 = 6 -> "Auth"
      [] OTHER -> "Err"

\* the meta can be held by the bucket: a media type for Success, a Url for
\* Redirect, any text for the others
MetaParses(bucket, meta) ==
    CASE bucket = "Success" -> mime_essence(meta) # ""
      [] bucket = "Redirect" -> meta \in Urls
      [] OTHER -> TRUE

\* the fetch of a header that is served without a redirect before it
DirectDone ==
    /\ fetch.pc = "done"
    /\ fetch.base = "A"
    /\ fetch.remote.kind = "chain"
    /\ fetch.remote.redirects = 0

\* C12: a status code is classified by its tens digit (1 Input, 2 Success,
\* 3 Redirect, 4 TempFail, 5 PermFail, 6 Auth), every other code is the
\* error "invalid status code"; the fetch returns a document exactly for a
\* Success whose media type is text/gemini, and Input, TempFail, PermFail,
\* Auth and Success of another media type end it as an error after a single
\* request cycle.
C12_StatusClassification ==
    /\ fetch.pc # "idle" /\ fetch.remote.kind = "chain" =>
           LET code == fetch.remote.code
               meta == fetch.remote.meta
               header == GeminiHeader_from_str(ServedHeader(fetch.remote))
           IN  /\ Bucket(code) = "Err" =>
                      header = HeaderErr("invalid status code")
               /\ Bucket(code) # "Err" /\ MetaParses(Bucket(code), meta) =>
                      header.type = Bucket(code)
               /\ Bucket(code) # "Err" /\ ~MetaParses(Bucket(code), meta) =>
                      header.type = "Err"
    /\ DirectDone =>
           LET code == fetch.remote.code
               meta == fetch.remote.meta
               native == /\ Bucket(code) = "Success"
                         /\ mime_essence(meta) = "text/gemini"
           IN  /\ fetch.result.kind = "Ok" <=> native
               /\ Bucket(code) # "Redirect" /\ ~native =>
                      fetch.result.kind = "Err" /\ fetch.cycles = 1
               /\ Bucket(code) \in {"Input", "TempFail", "PermFail", "Auth"} =>
                      /\ fetch.result.err = "invalid header type"
                      /\ fetch.result.header = Bucket(code)
    /\ fetch.pc = "done" /\ fetch.result.kind = "Ok" =>
           fetch.result.header = "Success"

\* the header "19 text/plain" has ended a fetch as the error of an Input
\* header after one request cycle
C12_Witness ==
    /\ DirectDone
    /\ fetch.remote.code = 19
    /\ fetch.result.kind = "Err"
    /\ fetch.result.header = "Input"
    /\ fetch.cycles = 1


(***************************************************************************)
(* GeminiText: the parser of a body (src/src/gemini_web.rs:224-256) and    *)
(* its rendering (src/src/gemini_web.rs:260-275).  A body is the sequence  *)
(* of its lines, a line the string of its characters.  The text of a link  *)
(* target is one of: the serialisation of a Url (its name), a reference    *)
(* relative to the base, or a text Url::parse rejects.                     *)
(***************************************************************************)
\* largest number of lines of a body that is parsed
MaxLines == 3

IsSpace(c) == c = " " \/ c = "\t"

RECURSIVE trim_start(_)
trim_start(s) ==
    IF s # "" /\ IsSpace(Char(s, 1)) THEN trim_start(From(s, 2)) ELSE s

RECURSIVE trim_end(_)
trim_end(s) ==
    IF s # "" /\ IsSpace(Char(s, Len(s)))
    THEN trim_end(SubSeq(s, 1, Len(s) - 1))
    ELSE s

\* str::trim
trim(s) == trim_end(trim_start(s))

\* str::replace('\t', " ")
RECURSIVE replace_tab(_)
replace_tab(s) ==
    IF s = "" THEN ""
    ELSE (IF Char(s, 1) = "\t" THEN " " ELSE Char(s, 1))
             \o replace_tab(From(s, 2))

\* the line begins with the bytes of prefix
starts_with(s, prefix) ==
    Len(s) >= Len(prefix) /\ SubSeq(s, 1, Len(prefix)) = prefix

\* a url of another scheme than gemini
OtherSchemeUrls == {"H"}

\* references relative to the base and the url they resolve to
RelativeRefs == [r \in {"/b", "/c"} |-> IF r = "/b" THEN "B" ELSE "C"]

\* Url::options().base_url(Some(base_url)).parse(input): the url, or None
\* for a ParseError; the empty reference is the base itself
url_parse(base, input) ==
    IF input \in Urls \cup OtherSchemeUrls THEN input
    ELSE IF input \in DOMAIN RelativeRefs THEN RelativeRefs[input]
    ELSE IF input = "" THEN base
    ELSE "ParseError"

Statement(kind, level, url, text) ==
    [kind |-> kind, level |-> level, url |-> url, text |-> text]

\* the statement of one trimmed line outside preformatted mode: the match
\* on line.as_bytes(); kind "Err" when the target of a link does not parse
statement_of(line, base) ==
    IF starts_with(line, "=>")
    THEN LET l == replace_tab(trim(From(line, 3)))
             parts == split_once(l, " ")
             url == IF parts = <<>> THEN l ELSE parts[1]
             label == IF parts = <<>> THEN "" ELSE parts[2]
             parsed == url_parse(base, trim(url))
         IN  IF parsed = "ParseError"
             THEN Statement("Err", 0, "", parsed)
             ELSE Statement("Link", 0, parsed, trim(label))
    ELSE IF starts_with(line, "###")
    THEN Statement("Header", 3, "", trim(From(line, 4)))
    ELSE IF starts_with(line, "##")
    THEN Statement("Header", 2, "", trim(From(line, 3)))
    ELSE IF starts_with(line, "#")
    THEN Statement("Header", 1, "", trim(From(line, 2)))
    ELSE IF starts_with(line, "*")
    THEN Statement("ListItem", 0, "", trim(From(line, 2)))
    ELSE Statement("Line", 0, "", line)

\* the fence marker, three backquotes in the source; a string of this
\* language cannot hold a backquote, so the model writes apostrophes
Fence == "'''"

\* in_pre after the fence test of the loop body
toggle(line, in_pre) == IF line = Fence THEN ~in_pre ELSE in_pre

\* the statement one turn of the loop of GeminiText::new pushes
pushed(raw_line, in_pre, base) ==
    LET line == trim(raw_line)
    IN  IF toggle(line, in_pre)
        THEN Statement("Line", 0, "", line)
        ELSE statement_of(line, base)

\* one statement rendered by Display
display(st) ==
    CASE st.kind = "Line" -> st.text
      [] st.kind = "Link" -> "=> " \o st.url \o " (" \o st.text \o ")"
      [] st.kind = "ListItem" -> "* " \o st.text
      [] st.kind = "Header" /\ st.level = 1 -> "# " \o st.text
      [] st.kind = "Header" /\ st.level = 2 -> "## " \o st.text
      [] st.kind = "Header" /\ st.level = 3 -> "### " \o st.text

\* <GeminiText as Display>::fmt: one line per statement
Display(text) == [i \in 1..Len(text) |-> display(text[i])]

(***************************************************************************)
(* ParseSpec: a body is parsed, the document is rendered and the rendering *)
(* is parsed again against the same base.                                  *)
(***************************************************************************)
BodyLines ==
    {"# Title", "##Sub", "* item", "=> B", "=>\tC\tsee  C ", "=> /c rel",
     "=>", "=> H web", "=> http://", Fence, "  raw", "=> A"}

\* a heading, a link, a list item and the fenced line "raw"
FencedBody == <<"# Title", "=> B label", "* item", Fence, "raw", Fence>>

Bodies ==
    UNION {[1..n -> BodyLines] : n \in 1..MaxLines} \cup {FencedBody}

ParseInit ==
    /\ server = IdleServer
    /\ web = GeminiWeb_new
    /\ url_q = <<>>
    /\ resp_q = <<>>
    /\ q_pc = "idle"
    /\ inflight = <<>>
    /\ q_resp = <<>>
    /\ c_pc = "idle"
    /\ c_pending = <<>>
    /\ c_panic = "none"
    /\ failed = {}
    /\ cancel = FALSE
    /\ given = {}
    /\ passed = [p \in {} |-> 0]
    /\ last = [op |-> "new"]
    /\ ncalls = 0
    /\ fetch = NoFetch
    /\ \E body \in Bodies :
           parse = [pc |-> "parse", base_url |-> "A", body |-> body,
                    lines |-> body, in_pre |-> FALSE, text |-> <<>>,
                    first |-> <<>>]

\* one turn of the loop of GeminiText::new that pushes a statement
ParseLine ==
    /\ parse.pc \in {"parse", "reparse"}
    /\ parse.lines # <<>>
    /\ LET st == pushed(Head(parse.lines), parse.in_pre, parse.base_url)
       IN  /\ st.kind # "Err"
           /\ parse' = [parse EXCEPT
                  !.lines = Tail(@),
                  !.in_pre = toggle(trim(Head(parse.lines)), @),
                  !.text = Append(@, st)]
    /\ UNCHANGED <<web, crawlVars, storeGhost, fetch>>

\* url_parser.parse(..)? returns the ParseError from GeminiText::new
ParseFail ==
    /\ parse.pc \in {"parse", "reparse"}
    /\ parse.lines # <<>>
    /\ pushed(Head(parse.lines), parse.in_pre, parse.base_url).kind = "Err"
    /\ parse' = [parse EXCEPT !.pc = "failed"]
    /\ UNCHANGED <<web, crawlVars, storeGhost, fetch>>

\* Ok(text)
ParseReturn ==
    /\ parse.pc = "parse"
    /\ parse.lines = <<>>
    /\ parse' = [parse EXCEPT !.pc = "parsed", !.first = parse.text]
    /\ UNCHANGED <<web, crawlVars, storeGhost, fetch>>

\* the document is rendered and GeminiText::new is called on the rendering
Render ==
    /\ parse.pc = "parsed"
    /\ parse' = [parse EXCEPT !.pc = "reparse",
                              !.lines = Display(parse.text),
                              !.in_pre = FALSE,
                              !.text = <<>>]
    /\ UNCHANGED <<web, crawlVars, storeGhost, fetch>>

\* Ok(text) of the second parse
ReparseReturn ==
    /\ parse.pc = "reparse"
    /\ parse.lines = <<>>
    /\ parse' = [parse EXCEPT !.pc = "reparsed"]
    /\ UNCHANGED <<web, crawlVars, storeGhost, fetch>>

ParseNext ==
    ParseLine \/ ParseFail \/ ParseReturn \/ Render \/ ReparseReturn

ParseSpec == ParseInit /\ [][ParseNext]_vars


\* C13: a line that is only the fence marker toggles preformatted mode and
\* is never a statement of the document; a line between two fences is a
\* plain line whatever its first characters are; the body of a heading, a
\* link, a list item and the fenced line "raw" parses to exactly
\* [Heading, Link, ListItem, PlainLine(raw)].
C13_FenceIsNotContent ==
    parse.pc # "idle" =>
        /\ \A i \in 1..Len(parse.text) :
               parse.text[i] # Statement("Line", 0, "", Fence)
        /\ parse.pc = "parse" /\ parse.in_pre =>
               parse.text[Len(parse.text)].kind = "Line"
        /\ parse.pc = "parsed" /\ parse.body = FencedBody =>
               parse.text = <<Statement("Header", 1, "", "Title"),
                              Statement("Link", 0, "B", "label"),
                              Statement("ListItem", 0, "", "item"),
                              Statement("Line", 0, "", "raw")>>

\* the statements of the lines, a link line whose target does not parse
\* being dropped
RECURSIVE ParsedDropping(_, _, _)
ParsedDropping(lines, in_pre, base) ==
    IF lines = <<>> THEN <<>>
    ELSE LET st == pushed(Head(lines), in_pre, base)
             rest == ParsedDropping(Tail(lines),
                                    toggle(trim(Head(lines)), in_pre), base)
         IN  IF st.kind = "Err" THEN rest ELSE <<st>> \o rest

\* C14: a link line whose target cannot be parsed is dropped alone: the
\* parse of the body does not fail, and it returns the statements of all
\* other lines in order.
C14_BadLinkLineDropped ==
    /\ parse.pc # "failed"
    /\ parse.pc = "parsed" =>
           parse.text = ParsedDropping(parse.body, FALSE, parse.base_url)

\* C15: the document parsed from the rendering of a document d, against
\* the same base, has the statements of d: same kinds, targets, labels,
\* levels and texts, in the same order.
C15_RoundTrip ==
    parse.pc = "reparsed" => parse.text = parse.first


(***************************************************************************)
(* Properties of the crawl's bookkeeping, checked under Spec.              *)
(***************************************************************************)
\* every visited resource has a node of the graph
C16_VisitedHaveNodes == web.visited \subseteq NodeUrls(web)

\* a step of the querier task
QuerierMoves == q_pc' # q_pc

\* a step of the consumer loop: a response taken, or a pending url sent
ConsumerMoves ==
    /\ c_pc \in {"recv", "send"}
    /\ \/ resp_q # <<>> /\ resp_q' = Tail(resp_q)
       \/ c_pending # <<>> /\ c_pending' = Tail(c_pending)
    /\ q_pc' = q_pc /\ inflight' = inflight /\ q_resp' = q_resp

C16_OnlyConsumerWrites ==
    /\ web.visited \subseteq web'.visited
    /\ web' # web \/ Len(url_q') > Len(url_q) => ConsumerMoves
    /\ QuerierMoves => web' = web /\ Len(url_q') <= Len(url_q)

\* C16: in every reachable state of a crawl run every visited resource has
\* a graph node; the visited set only grows; only a step of the consumer,
\* never a step of the querier, changes the visited set or the graph or
\* enqueues onto the frontier.
C16_CrawlInvariants ==
    [](C16_VisitedHaveNodes) /\ [][C16_OnlyConsumerWrites]_vars

\* the querier is in a fetch while two resources are visited and a further
\* url waits in the frontier
C16_Witness ==
    /\ q_pc = "fetch"
    /\ Cardinality(web.visited) >= 2
    /\ url_q # <<>>


\* the urls of the messages of a queue
UrlsOf(q) == {q[i].url : i \in 1..Len(q)}

\* the state of a resource in the run: being fetched until its result is
\* merged or its failure logged
ResourceState(u) ==
    IF u \in UrlsOf(inflight) \cup UrlsOf(q_resp) \cup UrlsOf(resp_q)
    THEN "Fetching"
    ELSE IF u \in web.visited THEN "Visited"
    ELSE IF u \in failed THEN "Failed"
    ELSE IF u \in NodeUrls(web) THEN "Discovered"
    ELSE "Unknown"

ResourceMoves ==
    {<<"Unknown", "Discovered">>, <<"Discovered", "Fetching">>,
     <<"Fetching", "Visited">>, <<"Fetching", "Failed">>}

\* the querier takes a url from the frontier to fetch it
Dequeues == q_pc = "recv" /\ q_pc' = "fetch" /\ url_q # <<>>

C17_ResourceStep ==
    /\ Dequeues => Head(url_q).url \notin web.visited
    /\ \A u \in Urls :
           \/ ResourceState(u)' = ResourceState(u)
           \/ <<ResourceState(u), ResourceState(u)'>> \in ResourceMoves

\* C17: within a run a resource only moves Unknown -> Discovered ->
\* Fetching -> Visited or Failed; a resource that is Visited is never
\* dequeued and fetched again.
C17_ResourceStateMachine == [][C17_ResourceStep]_vars

\* the links of the document a fetch of u returns
Document(u) == gemini_get(DocsRemote(server), u, 0).links

\* the result the consumer takes is for a resource that is visited already
SecondResult == ConsumerMerges /\ Head(resp_q).url \in web.visited

C18_EndWeights ==
    Quiescent =>
        \A e \in EdgeSet(web) :
            e.weight <= Count(web.nodes[e.target + 1],
                              Document(web.nodes[e.source + 1]))

\* C18: the result for a resource that is visited already changes neither
\* an edge nor the frontier; when the run has come to rest the weight of
\* edge (s, t) is at most the number of links to t in the document of s.
C18_IdempotentMerge ==
    /\ [](C18_EndWeights)
    /\ [][SecondResult => web'.edges = web.edges /\ c_pending' = <<>>]_vars


\* the store of the run in which the frontier is worked off one url at a
\* time, each result merged before the next url is fetched
RECURSIVE SeqCrawl(_, _, _)
SeqCrawl(srv, w, frontier) ==
    IF frontier = <<>> THEN w
    ELSE LET m == Head(frontier)
             w1 == [w EXCEPT !.visited = @ \cup {m.url}]
             urls == LinksToMerge(gemini_get(DocsRemote(srv), m.url, 0).links,
                                  w1.visited)
             a == add_urls(w1, m.node_id, urls)
         IN  SeqCrawl(srv, a.web, Tail(frontier) \o Zip(urls, a.node_ids))

\* the totals of a store: the node set, the weight of every edge between
\* two resources, the visited set
Totals(w) ==
    [nodes |-> NodeUrls(w),
     weights |-> {<<w.nodes[e.source + 1], w.nodes[e.target + 1], e.weight>> :
                     e \in EdgeSet(w)},
     visited |-> w.visited]

\* C19: for a server every fetch of which succeeds, every run that comes
\* to rest does so with the same node set, edge weights and visited set,
\* those of the sequential run, whatever the interleaving of the querier's
\* and the consumer's steps was.
C19_DeterministicTotals ==
    Quiescent /\ failed = {} =>
        Totals(web) =
            Totals(SeqCrawl(server, add_node(GeminiWeb_new, base_url).web,
                            <<[url |-> base_url,
                               node_id |-> add_node(GeminiWeb_new,
                                                    base_url).index]>>))

\* a run of Diamond without a failed fetch has come to rest
C19_Witness ==
    /\ server = Diamond
    /\ Quiescent
    /\ failed = {}
    /\ web.visited = {"A", "B", "C", "Bq"}


\* the consumer takes the result of the fetch that was made for the node
\* of r, a resource served as a redirect
RedirectedResult(r) ==
    /\ ConsumerMerges
    /\ r \in DOMAIN web.url_node_ids
    /\ Head(resp_q).node_id = Node(web, r)

C20_RedirectStep ==
    \A r \in DOMAIN RedirectTo :
        RedirectedResult(r) =>
            LET target == RedirectTo[r]
                links == Head(resp_q).links
            IN  /\ links = server[target]
                /\ web'.visited = web.visited \cup {r}
                /\ target \in web'.visited <=> target \in web.visited
                /\ NodeUrls(web') \ NodeUrls(web) \subseteq LinkSet(links)
                /\ \A e \in EdgeSet(web') \ EdgeSet(web) :
                       /\ e.source = Node(web, r)
                       /\ web'.nodes[e.target + 1] \in LinkSet(links)

\* a link to an unvisited resource in a merged document is enqueued, a
\* redirect target like any other
C20_TargetStillEnqueued ==
    \A r \in DOMAIN RedirectTo :
        ConsumerMerges /\ RedirectTo[r] \in LinkSet(Head(resp_q).links)
                       /\ RedirectTo[r] \notin web.visited
                       /\ RedirectTo[r] # Head(resp_q).url =>
            RedirectTo[r] \in UrlsOf(c_pending')

\* C20: when the fetch of r succeeded by following a redirect to r', the
\* consumer marks r and not r' visited and adds the edges of the final
\* document from the node of r; the redirect adds no node and no edge for
\* r' and does not mark it visited, so a later link to r' is enqueued.
C20_RedirectAttribution ==
    [][C20_RedirectStep /\ C20_TargetStillEnqueued]_vars

\* R is visited through its redirect to C, and C, found later as a link of
\* B, is being fetched itself
C20_Witness ==
    /\ "R" \in web.visited
    /\ "C" \notin web.visited
    /\ q_pc = "fetch"
    /\ inflight # <<>>
    /\ Head(inflight).url = "C"


====
